---- MODULE Spec2Model ----
(***************************************************************************)
(* Model of app.py: the survey intake handler (submit_survey), the SQLite  *)
(* response store (init_db, save_response, get_responses) and the          *)
(* dashboard aggregation (dashboard).                                      *)
(*                                                                         *)
(* Strings are TLA+ strings, except where the code looks inside a string   *)
(* (str.replace, str.title): those are sequences of one-character strings. *)
(* Free-text answers are sequences of characters too, so that whitespace   *)
(* inside them is visible. Len is 0 exactly for the empty string in both   *)
(* representations. A timestamp is the number of the wall-clock second:    *)
(* '%Y-%m-%d %H:%M:%S' strings order as their seconds do.                  *)
(***************************************************************************)
EXTENDS Integers, Sequences, FiniteSets, TLC

VARIABLES
    rows,       \* committed rows of table responses, in commit order
    seq,        \* sqlite_sequence: the largest id AUTOINCREMENT has handed out
    clock,      \* datetime.now(), in whole seconds
    pc,         \* per worker: position inside submit_survey / save_response
    data,       \* per worker: request.form.to_dict() of the request in flight
    ts,         \* per worker: timestamp taken at the top of save_response
    pending,    \* per worker: id of the row inserted but not yet committed
    writer,     \* the worker holding the database write lock, or NoWriter
    view        \* the response rendered by the last finished request

vars == <<rows, seq, clock, pc, data, ts, pending, writer, view>>

----------------------------------------------------------------------------
\* Bounds of the model.

MaxRows == 2
MaxClock == 1

Procs == {"w1", "w2"}
NoWriter == "none"

----------------------------------------------------------------------------
\* Static configuration.

McqIds == <<"ai_adoption", "ai_impact", "biggest_concern">>
FreeTextIds == <<"ai_opportunities", "implementation_barriers">>

SURVEY_QUESTIONS ==
    [ai_adoption |->
        {"No AI adoption yet",
         "Pilot projects/early exploration",
         "Limited implementation in specific areas",
         "Widespread adoption across multiple functions",
         "Fully integrated AI-driven operations"},
     ai_impact |->
        {"Minimal impact - traditional methods will remain dominant",
         "Moderate impact - AI will supplement existing processes",
         "Significant impact - AI will transform many finance functions",
         "Revolutionary impact - AI will fundamentally reshape the industry",
         "Uncertain/Too early to tell"},
     biggest_concern |->
        {"Data security and privacy risks",
         "Regulatory compliance and governance",
         "Job displacement and workforce impact",
         "Accuracy and reliability of AI decisions",
         "Cost of implementation and ROI uncertainty",
         "Lack of technical expertise/skills gap"}]

required_fields_short ==
    <<"ai_adoption", "ai_impact", "biggest_concern", "ai_opportunities">>

required_fields ==
    <<"ai_adoption", "ai_impact", "biggest_concern",
      "ai_opportunities", "implementation_barriers">>

\* The five answer columns of the table, in the order of the INSERT.
columns ==
    <<"ai_adoption", "ai_impact", "biggest_concern",
      "ai_opportunities", "implementation_barriers">>

Range(s) == {s[i] : i \in DOMAIN s}

Fields == Range(columns)

----------------------------------------------------------------------------
\* Inputs: the forms a client may post. A form is a function from the field
\* names it carries to their values; a field may be absent.

\* The submission of the specification's scenario: every answer well formed.
BaseForm ==
    [ai_adoption |-> "Pilot projects/early exploration",
     ai_impact |-> "Moderate impact - AI will supplement existing processes",
     biggest_concern |-> "Data security and privacy risks",
     ai_opportunities |-> <<" ", "a">>,
     implementation_barriers |-> <<"b">>]

\* A submission with every field filled in, one choice that is no option of
\* its question and one free-text answer of whitespace only.
OddForm ==
    [ai_adoption |-> "Maybe",
     ai_impact |-> "Moderate impact - AI will supplement existing processes",
     biggest_concern |-> "Data security and privacy risks",
     ai_opportunities |-> <<" ">>,
     implementation_barriers |-> <<"b">>]

ValidForms == {BaseForm, OddForm}

\* The form without the fields of S.
Without(form, S) == [fld \in DOMAIN form \ S |-> form[fld]]

\* The form with the fields of S left empty.
Blanked(form, S) ==
    [fld \in DOMAIN form |->
        IF fld \notin S THEN form[fld]
        ELSE IF fld \in Range(FreeTextIds) THEN <<>> ELSE ""]

\* The fields declared after the i-th.
After(i) == {columns[j] : j \in (i + 1)..Len(columns)}

Last == columns[Len(columns)]

\* The forms posted: the two complete ones and, for each field, forms where
\* it is the first one absent or empty: alone, with every later field bad in
\* the other way, and with the last field bad in the same way.
Forms ==
    ValidForms
    \cup {Without(BaseForm, {columns[i]}) : i \in DOMAIN columns}
    \cup {Blanked(BaseForm, {columns[i]}) : i \in DOMAIN columns}
    \cup {Blanked(Without(BaseForm, {columns[i]}), After(i)) : i \in DOMAIN columns}
    \cup {Without(Blanked(BaseForm, {columns[i]}), After(i)) : i \in DOMAIN columns}
    \cup {Without(BaseForm, {columns[i], Last}) : i \in DOMAIN columns}
    \cup {Blanked(BaseForm, {columns[i], Last}) : i \in DOMAIN columns}

EmptyForm == [fld \in {} |-> ""]

----------------------------------------------------------------------------
\* submit_survey: validation.

\* `not request.form.get(field)`: absent (None) or the empty string.
FalsyAbsentOnly(form, field) == field \notin DOMAIN form

Falsy(form, field) ==
    \/ field \notin DOMAIN form
    \/ Len(form[field]) = 0

\* The for loop with its early return: the index of the field reported,
\* or 0 when the loop runs to its end.
LastMissing(form) ==
    LET bad == {i \in DOMAIN required_fields : Falsy(form, required_fields[i])}
    IN  IF bad = {} THEN 0 ELSE CHOOSE i \in bad : \A j \in bad : j <= i

FirstMissing(form) ==
    LET bad == {i \in DOMAIN required_fields : Falsy(form, required_fields[i])}
    IN  IF bad = {} THEN 0 ELSE CHOOSE i \in bad : \A j \in bad : i <= j

\* The characters of the field names.
Chars ==
    [ai_adoption |-> <<"a","i","_","a","d","o","p","t","i","o","n">>,
     ai_impact |-> <<"a","i","_","i","m","p","a","c","t">>,
     biggest_concern |->
        <<"b","i","g","g","e","s","t","_","c","o","n","c","e","r","n">>,
     ai_opportunities |->
        <<"a","i","_","o","p","p","o","r","t","u","n","i","t","i","e","s">>,
     implementation_barriers |->
        <<"i","m","p","l","e","m","e","n","t","a","t","i","o","n","_",
          "b","a","r","r","i","e","r","s">>]

Lowers ==
    <<"a","b","c","d","e","f","g","h","i","j","k","l","m",
      "n","o","p","q","r","s","t","u","v","w","x","y","z">>
Uppers ==
    <<"A","B","C","D","E","F","G","H","I","J","K","L","M",
      "N","O","P","Q","R","S","T","U","V","W","X","Y","Z">>

IsLetter(c) == c \in Range(Lowers) \cup Range(Uppers)

Upper(c) ==
    IF c \in Range(Lowers)
    THEN Uppers[CHOOSE i \in DOMAIN Lowers : Lowers[i] = c]
    ELSE c

Lower(c) ==
    IF c \in Range(Uppers)
    THEN Lowers[CHOOSE i \in DOMAIN Uppers : Uppers[i] = c]
    ELSE c

\* str.replace(old, new) for one-character old and new.
Replace(s, old, new) == [i \in DOMAIN s |-> IF s[i] = old THEN new ELSE s[i]]

\* str.title(): a letter that follows no letter is upper-cased, every other
\* letter is lower-cased.
Title(s) ==
    [i \in DOMAIN s |->
        IF i = 1 \/ ~IsLetter(s[i - 1]) THEN Upper(s[i]) ELSE Lower(s[i])]

ErrorView(message) == [template |-> "error.html", ctx |-> [message |-> message]]

\* field.replace('_', ' ').title(), for each required field.
HumanName ==
    [field \in Fields |-> Title(Replace(Chars[field], "_", " "))]

MissingMessage(field) ==
    <<"Please fill in all required fields. Missing: ", HumanName[field]>>

\* The error page of each required field.
MissingView ==
    [i \in DOMAIN required_fields |-> ErrorView(MissingMessage(required_fields[i]))]

ExceptionMessage(e) == <<"An error occurred: ", e>>

----------------------------------------------------------------------------
\* The response store.

\* CREATE TABLE IF NOT EXISTS: an existing table keeps its rows.
InitDbRecreate(table) == <<>>

InitDb(table) == table

\* data.get(field, '')
Get(form, field) == IF field \in DOMAIN form THEN form[field] ELSE ""

\* INTEGER PRIMARY KEY AUTOINCREMENT: one more than the largest id ever used.
NextId == seq + 1

\* The INSERT needs the write lock of the database file; it is held until
\* the transaction commits.
LockedNever == FALSE

Locked == writer # NoWriter

\* The row of the INSERT statement.
NewRow(id, timestamp, form) ==
    [id |-> id,
     timestamp |-> timestamp,
     ai_adoption |-> Get(form, "ai_adoption"),
     ai_impact |-> Get(form, "ai_impact"),
     biggest_concern |-> Get(form, "biggest_concern"),
     ai_opportunities |-> Get(form, "ai_opportunities"),
     implementation_barriers |-> Get(form, "implementation_barriers")]

\* SELECT * FROM responses ORDER BY timestamp DESC: the results the statement
\* may return. Rows with equal timestamps come in an order SQL leaves open.
Perms(n) ==
    {p \in [1..n -> 1..n] : \A i, j \in 1..n : i # j => p[i] # p[j]}

get_responses ==
    {[i \in 1..Len(rows) |-> rows[p[i]]] :
        p \in {q \in Perms(Len(rows)) :
                 \A i, j \in 1..Len(rows) :
                    i < j => rows[q[i]].timestamp >= rows[q[j]].timestamp}}

----------------------------------------------------------------------------
\* dashboard: the aggregation.

\* Series.value_counts(): each observed value with its number of occurrences.
value_counts_distinct(col) == [v \in Range(col) |-> 1]

value_counts(col) ==
    [v \in Range(col) |-> Cardinality({i \in DOMAIN col : col[i] = v})]

Column(responses, field) == [i \in DOMAIN responses |-> responses[i][field]]

Max(S) == CHOOSE x \in S : \A y \in S : y <= x

DashboardCharts(responses) ==
    <<[title |-> "AI Adoption Levels",
       counts |-> value_counts(Column(responses, "ai_adoption"))],
      [title |-> "Expected AI Impact",
       counts |-> value_counts(Column(responses, "ai_impact"))],
      [title |-> "Biggest Concerns",
       counts |-> value_counts(Column(responses, "biggest_concern"))]>>

DashboardFull(responses) ==
    [template |-> "dashboard.html",
     ctx |-> [charts |-> DashboardCharts(responses),
              total_responses |-> Len(responses),
              latest_response |->
                  IF Len(responses) > 0
                  THEN Max(Range(Column(responses, "timestamp")))
                  ELSE "No responses yet",
              message |-> ""]]

DashboardViewNoEmptyCheck(responses) == DashboardFull(responses)

DashboardView(responses) ==
    IF Len(responses) = 0
    THEN [template |-> "dashboard.html",
          ctx |-> [message |-> "No survey responses yet.", charts |-> <<>>]]
    ELSE DashboardFull(responses)

----------------------------------------------------------------------------
\* Initial state: the module has been imported, init_db has run.

NoView == [template |-> "none", ctx |-> [message |-> ""]]

Init ==
    /\ rows = InitDb(<<>>)
    /\ seq = 0
    /\ clock = 0
    /\ pc = [p \in Procs |-> "idle"]
    /\ data = [p \in Procs |-> EmptyForm]
    /\ ts = [p \in Procs |-> 0]
    /\ pending = [p \in Procs |-> 0]
    /\ writer = NoWriter
    /\ view = NoView

InFlight == Cardinality({p \in Procs : pc[p] # "idle"})

\* Time passes.
Tick ==
    /\ clock < MaxClock
    /\ clock' = clock + 1
    /\ UNCHANGED <<rows, seq, pc, data, ts, pending, writer, view>>

\* GET /
survey ==
    /\ view' = [template |-> "survey.html",
                ctx |-> [questions |-> SURVEY_QUESTIONS, qr_code |-> "data:image/png;base64"]]
    /\ UNCHANGED <<rows, seq, clock, pc, data, ts, pending, writer>>

\* POST /submit, up to the timestamp taken at the top of save_response.
submit_survey(p, form) ==
    /\ pc[p] = "idle"
    /\ IF FirstMissing(form) # 0
       THEN /\ view' = MissingView[FirstMissing(form)]
            /\ UNCHANGED <<pc, data, ts>>
       ELSE /\ Len(rows) + InFlight < MaxRows
            /\ pc' = [pc EXCEPT ![p] = "insert"]
            /\ data' = [data EXCEPT ![p] = form]
            /\ ts' = [ts EXCEPT ![p] = clock]
            /\ UNCHANGED view
    /\ UNCHANGED <<rows, seq, clock, pending, writer>>

\* save_response: cursor.execute(INSERT) opens the transaction, takes the
\* write lock and assigns the id.
Insert(p) ==
    /\ pc[p] = "insert"
    /\ ~Locked
    /\ writer' = p
    /\ pending' = [pending EXCEPT ![p] = NextId]
    /\ pc' = [pc EXCEPT ![p] = "commit"]
    /\ UNCHANGED <<rows, seq, clock, data, ts, view>>

\* save_response: the INSERT finds the database locked by another
\* connection until its timeout; the exception reaches submit_survey's
\* handler.
InsertBusy(p) ==
    /\ pc[p] = "insert"
    /\ writer \notin {NoWriter, p}
    /\ view' = ErrorView(ExceptionMessage("database is locked"))
    /\ pc' = [pc EXCEPT ![p] = "idle"]
    /\ data' = [data EXCEPT ![p] = EmptyForm]
    /\ ts' = [ts EXCEPT ![p] = 0]
    /\ UNCHANGED <<rows, seq, clock, pending, writer>>

\* save_response: conn.commit(), then the thank-you page.
Commit(p) ==
    /\ pc[p] = "commit"
    /\ rows' = Append(rows, NewRow(pending[p], ts[p], data[p]))
    /\ seq' = IF pending[p] > seq THEN pending[p] ELSE seq
    /\ writer' = IF writer = p THEN NoWriter ELSE writer
    /\ view' = [template |-> "thank_you.html", ctx |-> [message |-> ""]]
    /\ pc' = [pc EXCEPT ![p] = "idle"]
    /\ data' = [data EXCEPT ![p] = EmptyForm]
    /\ ts' = [ts EXCEPT ![p] = 0]
    /\ pending' = [pending EXCEPT ![p] = 0]
    /\ UNCHANGED clock

\* GET /dashboard
dashboard ==
    /\ \E responses \in get_responses : view' = DashboardView(responses)
    /\ UNCHANGED <<rows, seq, clock, pc, data, ts, pending, writer>>

\* GET /responses
view_responses ==
    /\ \E responses \in get_responses :
          view' = [template |-> "responses.html", ctx |-> [responses |-> responses]]
    /\ UNCHANGED <<rows, seq, clock, pc, data, ts, pending, writer>>

\* The process stops and starts again: requests in flight are gone, an open
\* transaction is rolled back, init_db runs on the existing file and the new
\* process has rendered nothing yet.
Restart ==
    /\ rows' = InitDb(rows)
    /\ pc' = [p \in Procs |-> "idle"]
    /\ data' = [p \in Procs |-> EmptyForm]
    /\ ts' = [p \in Procs |-> 0]
    /\ pending' = [p \in Procs |-> 0]
    /\ writer' = NoWriter
    /\ view' = NoView
    /\ UNCHANGED <<seq, clock>>

Next ==
    \/ Tick
    \/ survey
    \/ \E p \in Procs, form \in Forms : submit_survey(p, form)
    \/ \E p \in Procs : Insert(p)
    \/ \E p \in Procs : InsertBusy(p)
    \/ \E p \in Procs : Commit(p)
    \/ dashboard
    \/ view_responses
    \/ Restart

Spec == Init /\ [][Next]_vars

----------------------------------------------------------------------------
\* Properties.

IsPrefix(s, t) == Len(s) <= Len(t) /\ SubSeq(t, 1, Len(s)) = s

\* A form that lacks a required field or carries it empty.
LacksField(form) ==
    \E fld \in Fields : fld \notin DOMAIN form \/ Len(form[fld]) = 0

\* The first such field, in the declared order.
FirstLacking(form) ==
    CHOOSE i \in DOMAIN columns :
        /\ columns[i] \notin DOMAIN form \/ Len(form[columns[i]]) = 0
        /\ \A j \in 1..(i - 1) :
              columns[j] \in DOMAIN form /\ Len(form[columns[j]]) > 0

ExpectedName ==
    <<<<"A","i"," ","A","d","o","p","t","i","o","n">>,
      <<"A","i"," ","I","m","p","a","c","t">>,
      <<"B","i","g","g","e","s","t"," ","C","o","n","c","e","r","n">>,
      <<"A","i"," ","O","p","p","o","r","t","u","n","i","t","i","e","s">>,
      <<"I","m","p","l","e","m","e","n","t","a","t","i","o","n"," ",
        "B","a","r","r","i","e","r","s">>>>

MissingPrefix == "Please fill in all required fields. Missing: "

\* The view is the listing of the store as it is now: no row has been
\* committed since (the store only grows).
ListingIsCurrent ==
    /\ view.template = "responses.html"
    /\ Len(view.ctx.responses) = Len(rows)

\* The view is the dashboard of a non-empty store as it is now.
DashboardIsCurrent ==
    /\ view.template = "dashboard.html"
    /\ "total_responses" \in DOMAIN view.ctx
    /\ view.ctx.total_responses = Len(rows)

\* C1: after save_response commits, the next get_responses has the new
\* response first, and its id is greater than every earlier id.
C1_NewestFirst ==
    (ListingIsCurrent /\ Len(rows) > 0) =>
        /\ view.ctx.responses[1] = rows[Len(rows)]
        /\ \A i \in 1..(Len(rows) - 1) : rows[i].id < rows[Len(rows)].id

\* C2: a POST /submit whose form lacks a required field, or has it empty,
\* returns the error view without calling save_response; the stored rows
\* are the same after the request as before.
C2_RejectBeforeWrite ==
    [][\A p \in Procs, form \in Forms :
          (LacksField(form) /\ submit_survey(p, form)) =>
              /\ rows' = rows
              /\ pc'[p] = "idle"
              /\ view'.template = "error.html"]_vars

C2_Witness ==
    /\ Len(rows) > 0
    /\ view.template = "error.html"
    /\ view.ctx.message[1] = MissingPrefix

\* C3: with several required fields missing or empty, the error names
\* exactly one field, the first one in the declared order, in title case
\* with spaces for underscores.
C3_FirstMissingNamed ==
    [][\A p \in Procs, form \in Forms :
          (LacksField(form) /\ submit_survey(p, form)) =>
              view'.ctx.message = <<MissingPrefix, ExpectedName[FirstLacking(form)]>>]_vars

C3_Witness ==
    /\ view.template = "error.html"
    /\ view.ctx.message[1] = MissingPrefix
    /\ view.ctx.message[2] = ExpectedName[3]

\* C4: under every interleaving of concurrent save_response calls, each
\* commit appends one row whose id is greater than every stored id, keeps
\* all earlier rows as they were, and the new row carries the timestamp and
\* the five answers of the committing request.
C4_SerializedSave ==
    [][rows' # rows =>
          \E p \in Procs :
              /\ pc[p] = "commit" /\ pc'[p] = "idle"
              /\ Len(rows') = Len(rows) + 1
              /\ IsPrefix(rows, rows')
              /\ rows'[Len(rows')].timestamp = ts[p]
              /\ \A fld \in Fields : rows'[Len(rows')][fld] = data[p][fld]
              /\ \A i \in DOMAIN rows : rows[i].id < rows'[Len(rows')].id]_vars

\* Two requests were in save_response at once: the one that took its
\* timestamp later committed first.
C4_Witness ==
    /\ Len(rows) = 2
    /\ rows[1].timestamp > rows[2].timestamp
    /\ rows[1].id < rows[2].id

RECURSIVE SumCounts(_, _)
SumCounts(counts, S) ==
    IF S = {} THEN 0
    ELSE LET v == CHOOSE x \in S : TRUE
         IN  counts[v] + SumCounts(counts, S \ {v})

\* C5: for a non-empty store, the counts of each of the three tallies sum
\* to total_responses, the number of stored responses.
C5_TalliesSumToTotal ==
    DashboardIsCurrent =>
        /\ Len(view.ctx.charts) = Len(McqIds)
        /\ \A k \in DOMAIN view.ctx.charts :
              SumCounts(view.ctx.charts[k].counts,
                        DOMAIN view.ctx.charts[k].counts) = view.ctx.total_responses

C5_Witness ==
    /\ DashboardIsCurrent
    /\ view.ctx.total_responses = 2
    /\ Cardinality(DOMAIN view.ctx.charts[1].counts) = 1
    /\ Cardinality(DOMAIN view.ctx.charts[2].counts) = 1

\* Leading and trailing whitespace removed.
RECURSIVE Trim(_)
Trim(s) ==
    IF Len(s) = 0 THEN s
    ELSE IF Head(s) = " " THEN Trim(Tail(s))
    ELSE IF s[Len(s)] = " " THEN Trim(SubSeq(s, 1, Len(s) - 1))
    ELSE s

RECURSIVE NonEmptyTrimmed(_)
NonEmptyTrimmed(col) ==
    IF Len(col) = 0 THEN <<>>
    ELSE IF Len(Trim(Head(col))) = 0 THEN NonEmptyTrimmed(Tail(col))
    ELSE <<Trim(Head(col))>> \o NonEmptyTrimmed(Tail(col))

FirstThree(s) == SubSeq(s, 1, IF Len(s) < 3 THEN Len(s) ELSE 3)

\* The free-text excerpts the dashboard context carries for a question.
Featured(ctx, q) == IF "featured" \in DOMAIN ctx THEN ctx.featured[q] ELSE <<>>

\* C6: the featured excerpts of each free-text question are the first three
\* trimmed, non-empty answers in most-recent-first order.
C6_FeaturedExcerpts ==
    (DashboardIsCurrent /\ Len(rows) > 0) =>
        \E responses \in get_responses :
            \A k \in DOMAIN FreeTextIds :
                Featured(view.ctx, FreeTextIds[k]) =
                    FirstThree(NonEmptyTrimmed(Column(responses, FreeTextIds[k])))

\* The dashboard of the store while it is still empty.
EmptyDashboard == view.template = "dashboard.html" /\ Len(rows) = 0

C8_NoPartialResponse ==
    \A i \in DOMAIN rows : \A fld \in Fields : Len(rows[i][fld]) > 0

C8_Witness ==
    /\ Len(rows) = 2
    /\ \E i \in DOMAIN rows : rows[i].ai_opportunities = <<" ">>
    /\ view.template = "error.html"

\* C9: every stored single-choice answer is one of the options configured
\* for its question.
C9_OptionsOnly ==
    \A i \in DOMAIN rows : \A k \in DOMAIN McqIds :
        rows[i][McqIds[k]] \in SURVEY_QUESTIONS[McqIds[k]]

\* C10: the store is append-only. A step keeps every stored row as it is
\* and adds at most one; only the commit of save_response adds one; rejected
\* submissions, the three GET requests and a restart with init_db leave the
\* rows unchanged.
C10_AppendOnly ==
    [][/\ IsPrefix(rows, rows')
       /\ Len(rows') <= Len(rows) + 1
       /\ rows' # rows =>
             \E p \in Procs :
                 pc[p] = "commit" /\ pc'[p] = "idle" /\ view'.template = "thank_you.html"
       /\ (Restart \/ survey \/ dashboard \/ view_responses) => rows' = rows]_vars

\* A restarted process over a store that already holds rows.
C10_Witness == view.template = "none" /\ Len(rows) = 2

====
